---- MODULE Spec2Model ----
(***************************************************************************)
(* Model of auto-requirements-upgrader.                                    *)
(*   auto-up-smart-compatibility.py : the oracle adapter, the two          *)
(*       rewriters, the strategy ladder and the conflict-fix run           *)
(*   auto-up.py                     : the version upgrade pass             *)
(* Text is a sequence of one-character strings, so that strip, split,      *)
(* startswith and join are computed the way Python computes them.          *)
(***************************************************************************)
EXTENDS Integers, Sequences, FiniteSets, TLC

VARIABLES
    pc,               \* position of the conflict-fix run
    original_content, \* text read from the input file (smart_v2 line 139)
    strategies,       \* the list built at lines 104-109
    idx,              \* index of the next strategy in the for-loop (line 113)
    oracleLog,        \* every run_pip_install_test call so far
    rewriterLog,      \* every rewriter invocation so far
    tempFiles,        \* transient files currently on disk
    fixed_content,    \* first component of the ladder's return value
    strategy,         \* second component of the ladder's return value
    outputFile,       \* content of the "-compatible" file, or None
    upPc,             \* position of the version upgrade pass
    upInput,          \* lines still to be read from the input file
    upgraded_lines,   \* auto-up.py line 24
    lookupLog,        \* every get_latest_version call so far
    upOutput          \* content of the "-upgraded" file, or None

vars == <<pc, original_content, strategies, idx, oracleLog, rewriterLog,
          tempFiles, fixed_content, strategy, outputFile,
          upPc, upInput, upgraded_lines, lookupLog, upOutput>>

runVars == <<pc, original_content, strategies, idx, oracleLog, rewriterLog,
             tempFiles, fixed_content, strategy, outputFile>>

upVars == <<upPc, upInput, upgraded_lines, lookupLog, upOutput>>

\* Largest number of lines of an input manifest.
MaxLines == 2

\* Python's None.
None == <<"None">>

-----------------------------------------------------------------------------
(* Python str primitives *)

NL == <<"\n">>

Whitespace == {" ", "\t", "\n", "\r", "\f"}

Digits == {"0", "1", "2", "3", "4", "5", "6", "7", "8", "9"}

Letters == {"a", "b", "c", "d", "e", "f", "g", "h", "i", "j", "k", "l", "m",
            "n", "o", "p", "q", "r", "s", "t", "u", "v", "w", "x", "y", "z",
            "A", "B", "C", "D", "E", "F", "G", "H", "I", "J", "K", "L", "M",
            "N", "O", "P", "Q", "R", "S", "T", "U", "V", "W", "X", "Y", "Z"}

Drop(s, n) == SubSeq(s, n + 1, Len(s))

StartsWith(s, p) ==
    /\ Len(p) <= Len(s)
    /\ SubSeq(s, 1, Len(p)) = p

RECURSIVE LStrip(_)
LStrip(s) ==
    IF s # <<>> /\ Head(s) \in Whitespace THEN LStrip(Tail(s)) ELSE s

RECURSIVE RStrip(_)
RStrip(s) ==
    IF s # <<>> /\ s[Len(s)] \in Whitespace
    THEN RStrip(SubSeq(s, 1, Len(s) - 1))
    ELSE s

Strip(s) == RStrip(LStrip(s))

\* Index of the first occurrence of sub in s, 0 when there is none.
RECURSIVE FindFrom(_, _, _)
FindFrom(s, sub, i) ==
    IF i + Len(sub) - 1 > Len(s) THEN 0
    ELSE IF SubSeq(s, i, i + Len(sub) - 1) = sub THEN i
    ELSE FindFrom(s, sub, i + 1)

Find(s, sub) == FindFrom(s, sub, 1)

Contains(s, sub) == Find(s, sub) # 0

\* s.split(sep) for a non-empty separator.
RECURSIVE Split(_, _)
Split(s, sep) ==
    LET i == Find(s, sep) IN
    IF i = 0 THEN <<s>>
    ELSE <<SubSeq(s, 1, i - 1)>> \o Split(Drop(s, i + Len(sep) - 1), sep)

\* sep.join(parts)
RECURSIVE Join(_, _)
Join(parts, sep) ==
    IF parts = <<>> THEN <<>>
    ELSE IF Len(parts) = 1 THEN parts[1]
    ELSE parts[1] \o sep \o Join(Tail(parts), sep)

-----------------------------------------------------------------------------
(* fix_dependency_conflicts *)

numpy == <<"n", "u", "m", "p", "y">>
pillow == <<"p", "i", "l", "l", "o", "w">>
scipy == <<"s", "c", "i", "p", "y">>
EqEq == <<"=", "=">>
GtEq == <<">", "=">>

numpyRange ==
    numpy \o GtEq \o <<"2", ".", "0", ".", "0", ",", "<", "2", ".", "3", ".", "0">>
pillowFloor == pillow \o GtEq \o <<"1", "0", ".", "0", ".", "0">>
scipyFloor == scipy \o GtEq \o <<"1", ".", "1", "1", ".", "0">>

\* A table whose second rule answers with a pin instead of a range.
conflict_fixes_pinned ==
    << <<numpy \o EqEq \o <<"2", ".", "3", ".", "1">>, numpyRange>>,
       <<numpy \o EqEq \o <<"2", ".", "3", ".", "0">>,
         numpy \o EqEq \o <<"2", ".", "2", ".", "6">> >>,
       <<pillow \o GtEq \o <<"1", "1", ".", "3", ".", "0">>, pillowFloor>>,
       <<scipy \o GtEq \o <<"1", ".", "1", "6", ".", "0">>, scipyFloor>> >>

\* The rule table, in insertion order: <<key, replacement>>.
conflict_fixes ==
    << <<numpy \o EqEq \o <<"2", ".", "3", ".", "1">>, numpyRange>>,
       <<numpy \o EqEq \o <<"2", ".", "3", ".", "0">>, numpyRange>>,
       <<pillow \o GtEq \o <<"1", "1", ".", "3", ".", "0">>, pillowFloor>>,
       <<scipy \o GtEq \o <<"1", ".", "1", "6", ".", "0">>, scipyFloor>> >>

\* line in conflict_fixes / conflict_fixes[line]
ExactRules(line) == {k \in 1..Len(conflict_fixes) : conflict_fixes[k][1] = line}

\* The condition of the pattern loop for one rule key.
PatternMatches(line, pattern) ==
    \/ StartsWith(line, Split(pattern, <<"=">>)[1] \o EqEq)
    \/ StartsWith(line, Split(pattern, <<">">>)[1])

PatternRules(line) ==
    {k \in 1..Len(conflict_fixes) : PatternMatches(line, conflict_fixes[k][1])}

Min(S) == CHOOSE x \in S : \A y \in S : x <= y

\* The body of the for-loop over lines: what is appended to fixed_lines.
FixLine(rawLine) ==
    LET line == Strip(rawLine) IN
    IF line = <<>> \/ StartsWith(line, <<"#">>) THEN line
    ELSE IF ExactRules(line) # {} THEN conflict_fixes[Min(ExactRules(line))][2]
    ELSE IF PatternRules(line) # {} THEN conflict_fixes[Min(PatternRules(line))][2]
    ELSE line

fix_dependency_conflicts(requirements_content) ==
    LET lines == Split(Strip(requirements_content), NL) IN
    Join([j \in 1..Len(lines) |-> FixLine(lines[j])], NL)

-----------------------------------------------------------------------------
(* make_requirements_flexible *)

\* The same line with a strict lower bound.
FlexLineStrict(rawLine) ==
    LET line == Strip(rawLine) IN
    IF line = <<>> \/ StartsWith(line, <<"#">>) THEN line
    ELSE IF Contains(line, EqEq) THEN
        LET package_name == Split(line, EqEq)[1]
            version == Split(line, EqEq)[2]
            version_parts == Split(version, <<".">>)
        IN  IF Len(version_parts) >= 2
            THEN package_name \o <<">">> \o version_parts[1] \o <<".">>
                     \o version_parts[2] \o <<".", "0">>
            ELSE package_name \o <<">">> \o version
    ELSE line

\* The body of the for-loop over lines: what is appended to flexible_lines.
FlexLine(rawLine) ==
    LET line == Strip(rawLine) IN
    IF line = <<>> \/ StartsWith(line, <<"#">>) THEN line
    ELSE IF Contains(line, EqEq) THEN
        LET package_name == Split(line, EqEq)[1]
            version == Split(line, EqEq)[2]
            version_parts == Split(version, <<".">>)
        IN  IF Len(version_parts) >= 2
            THEN package_name \o GtEq \o version_parts[1] \o <<".">>
                     \o version_parts[2] \o <<".", "0">>
            ELSE package_name \o GtEq \o version
    ELSE line

make_requirements_flexible(requirements_content) ==
    LET lines == Split(Strip(requirements_content), NL) IN
    Join([j \in 1..Len(lines) |-> FlexLine(lines[j])], NL)

-----------------------------------------------------------------------------
(* run_pip_install_test *)

\* What the platform and the resolver can do during one call:
\*   createfail  NamedTemporaryFile raises (line 11)
\*   writefail   temp_file.write or the flush on close raises (line 12)
\*   nostart     subprocess.run raises OSError (pip not found)
\*   timeout     subprocess.run raises TimeoutExpired after 60 s
\*   nonzero     pip exits with a non-zero status
\*   exit0       pip exits with status 0
OracleOutcomes == {"createfail", "writefail", "nostart", "timeout", "nonzero", "exit0"}

\* The call with the write moved inside the try block.
run_pip_install_test_guarded(kind) ==
    IF kind = "createfail"
    THEN [raised |-> TRUE, success |-> FALSE, leftover |-> FALSE]
    ELSE [raised |-> FALSE, success |-> (kind = "exit0"), leftover |-> FALSE]

\* raised:   an exception leaves the function
\* success:  first component of the returned triple
\* leftover: the transient file is still on disk when the call ends
run_pip_install_test(kind) ==
    IF kind = "createfail"
    THEN [raised |-> TRUE, success |-> FALSE, leftover |-> FALSE]
    ELSE IF kind = "writefail"
    THEN \* the with-block closes the file (delete=False) and the exception
         \* propagates: the try/finally at lines 15-28 is never entered
         [raised |-> TRUE, success |-> FALSE, leftover |-> TRUE]
    ELSE LET returned == IF kind \in {"exit0", "nonzero"}
                         THEN (kind = "exit0")   \* result.returncode == 0
                         ELSE FALSE              \* except Exception
         IN  \* finally: os.unlink(temp_path)
             [raised |-> FALSE, success |-> returned, leftover |-> FALSE]

-----------------------------------------------------------------------------
(* progressive_fix_requirements *)

\* The list with the two middle strategies exchanged.
StrategiesSwapped(content) ==
    << <<"Original", content>>,
       <<"Flexible versions", make_requirements_flexible(content)>>,
       <<"Fixed conflicts", fix_dependency_conflicts(content)>>,
       <<"Flexible + Fixed",
         make_requirements_flexible(fix_dependency_conflicts(content))>> >>

\* The list whose first candidate is the stripped text.
StrategiesStripped(content) ==
    << <<"Original", Strip(content)>>,
       <<"Fixed conflicts", fix_dependency_conflicts(content)>>,
       <<"Flexible versions", make_requirements_flexible(content)>>,
       <<"Flexible + Fixed",
         make_requirements_flexible(fix_dependency_conflicts(content))>> >>

\* strategies = [...] : <<strategy_name, content>> in list order.
Strategies(content) ==
    << <<"Original", content>>,
       <<"Fixed conflicts", fix_dependency_conflicts(content)>>,
       <<"Flexible versions", make_requirements_flexible(content)>>,
       <<"Flexible + Fixed",
         make_requirements_flexible(fix_dependency_conflicts(content))>> >>

\* The rewriter calls made while the list is evaluated, in evaluation order.
StrategiesRewriterCalls ==
    <<"fix_dependency_conflicts", "make_requirements_flexible",
      "fix_dependency_conflicts", "make_requirements_flexible">>

\* Python truthiness of the ladder's first return value.
Truthy(content) == content # None /\ content # <<>>

-----------------------------------------------------------------------------
(* Input manifests of the conflict-fix run *)

flask == <<"f", "l", "a", "s", "k">>
pillowHeif == pillow \o <<"-", "h", "e", "i", "f">>

LinePool ==
    { numpy \o EqEq \o <<"2", ".", "3", ".", "1">>,
      numpy \o EqEq \o <<"1", ".", "2", "6", ".", "4">>,
      numpyRange,
      pillowHeif \o EqEq \o <<"0", ".", "3", ".", "0">>,
      scipy \o EqEq \o <<"1", ".", "9">>,
      <<" ", " ">> \o flask \o EqEq \o <<"3">>,
      <<"#", " ", "w", "e", "b">>,
      <<>> }

LineLists(pool) == UNION {[1..n -> pool] : n \in 0..MaxLines}

Manifests == {Join(ls, NL) : ls \in LineLists(LinePool)}

-----------------------------------------------------------------------------
(* upgrade_requirements_smart_v2 *)

LogEntry(phase, label, content, r) ==
    [phase |-> phase, label |-> label, content |-> content,
     success |-> r.success, raised |-> r.raised]

Init ==
    /\ pc = "test_original"
    /\ original_content \in Manifests
    /\ strategies = <<>>
    /\ idx = 1
    /\ oracleLog = <<>>
    /\ rewriterLog = <<>>
    /\ tempFiles = {}
    /\ fixed_content = None
    /\ strategy = ""
    /\ outputFile = None
    /\ upPc = "idle"
    /\ upInput = <<>>
    /\ upgraded_lines = <<>>
    /\ lookupLog = <<>>
    /\ upOutput = None

\* Lines 141-151: the original is tested before the ladder is entered.
TestOriginal ==
    /\ pc = "test_original"
    /\ \E kind \in OracleOutcomes :
        LET r == run_pip_install_test(kind) IN
        /\ oracleLog' = Append(oracleLog, LogEntry("pretest", "Original", original_content, r))
        /\ tempFiles' = IF r.leftover THEN tempFiles \cup {Len(oracleLog) + 1} ELSE tempFiles
        /\ pc' = IF r.raised THEN "crashed"
                 ELSE IF r.success THEN "done_compatible"
                 ELSE "build_strategies"
    /\ UNCHANGED <<original_content, strategies, idx, rewriterLog, fixed_content,
                   strategy, outputFile>>
    /\ UNCHANGED upVars

\* Lines 104-111: the strategies list is evaluated before the loop starts.
BuildStrategies ==
    /\ pc = "build_strategies"
    /\ strategies' = Strategies(original_content)
    /\ rewriterLog' = rewriterLog \o StrategiesRewriterCalls
    /\ idx' = 1
    /\ pc' = "ladder_loop"
    /\ UNCHANGED <<original_content, oracleLog, tempFiles, fixed_content, strategy,
                   outputFile>>
    /\ UNCHANGED upVars

\* Lines 113-130: one iteration of the loop, and the return that ends it.
LadderStep ==
    /\ pc = "ladder_loop"
    /\ idx <= Len(strategies)
    /\ \E kind \in OracleOutcomes :
        LET strategy_name == strategies[idx][1]
            content == strategies[idx][2]
            r == run_pip_install_test(kind)
        IN
        /\ oracleLog' = Append(oracleLog, LogEntry("ladder", strategy_name, content, r))
        /\ tempFiles' = IF r.leftover THEN tempFiles \cup {Len(oracleLog) + 1} ELSE tempFiles
        /\ IF r.raised
           THEN /\ pc' = "crashed"
                /\ UNCHANGED <<idx, fixed_content, strategy>>
           ELSE IF r.success
           THEN /\ pc' = "ladder_returned"
                /\ fixed_content' = content
                /\ strategy' = strategy_name
                /\ UNCHANGED idx
           ELSE IF idx = Len(strategies)
           THEN /\ pc' = "ladder_returned"
                /\ fixed_content' = None
                /\ strategy' = "All strategies failed"
                /\ idx' = idx + 1
           ELSE /\ pc' = "ladder_loop"
                /\ idx' = idx + 1
                /\ UNCHANGED <<fixed_content, strategy>>
    /\ UNCHANGED <<original_content, strategies, rewriterLog, outputFile>>
    /\ UNCHANGED upVars

\* Lines 156-194: save the winning candidate, or report the failure.
SaveOrFail ==
    /\ pc = "ladder_returned"
    /\ IF Truthy(fixed_content)
       THEN /\ outputFile' = fixed_content
            /\ pc' = "done_saved"
       ELSE /\ outputFile' = outputFile
            /\ pc' = "done_failed"
    /\ UNCHANGED <<original_content, strategies, idx, oracleLog, rewriterLog,
                   tempFiles, fixed_content, strategy>>
    /\ UNCHANGED upVars

Next ==
    \/ TestOriginal
    \/ BuildStrategies
    \/ LadderStep
    \/ SaveOrFail

Spec == Init /\ [][Next]_vars

-----------------------------------------------------------------------------
(* Vocabulary of the properties *)

\* The oracle calls made by the ladder, in call order.
LadderCalls == SelectSeq(oracleLog, LAMBDA e : e.phase = "ladder")

LadderHasReturned == pc \in {"ladder_returned", "done_saved", "done_failed"}

\* The ladder as section 4.4 lists it: label and candidate of the k-th rung.
Rung(k) ==
    CASE k = 1 -> <<"Original", original_content>>
      [] k = 2 -> <<"Fixed conflicts", fix_dependency_conflicts(original_content)>>
      [] k = 3 -> <<"Flexible versions", make_requirements_flexible(original_content)>>
      [] k = 4 -> <<"Flexible + Fixed",
                    make_requirements_flexible(fix_dependency_conflicts(original_content))>>

\* The lines a rewriter iterates over, stripped as the loop body strips them.
InputLines == LET ls == Split(Strip(original_content), NL)
              IN  [j \in 1..Len(ls) |-> Strip(ls[j])]

IsCommentOrBlank(line) == line = <<>> \/ StartsWith(line, <<"#">>)

NameChars == Letters \cup Digits \cup {"-", "_"}

AllIn(s, S) == \A i \in 1..Len(s) : s[i] \in S

DigitVal(ch) ==
    CASE ch = "0" -> 0 [] ch = "1" -> 1 [] ch = "2" -> 2 [] ch = "3" -> 3
      [] ch = "4" -> 4 [] ch = "5" -> 5 [] ch = "6" -> 6 [] ch = "7" -> 7
      [] ch = "8" -> 8 [] ch = "9" -> 9

RECURSIVE ToInt(_)
ToInt(s) == IF s = <<>> THEN 0
            ELSE 10 * ToInt(SubSeq(s, 1, Len(s) - 1)) + DigitVal(s[Len(s)])

IsNumber(s) == s # <<>> /\ AllIn(s, Digits)

\* A release number: dot-separated decimal components.
IsRelease(v) == \A i \in 1..Len(Split(v, <<".">>)) : IsNumber(Split(v, <<".">>)[i])

Release(v) == LET ps == Split(v, <<".">>) IN [i \in 1..Len(ps) |-> ToInt(ps[i])]

\* Component i of a release, padded with zeros as version comparison pads.
Comp(r, i) == IF i <= Len(r) THEN r[i] ELSE 0

\* r1 >= r2 in version order.
ReleaseGE(r1, r2) ==
    LET n == IF Len(r1) >= Len(r2) THEN Len(r1) ELSE Len(r2) IN
    \/ \A i \in 1..n : Comp(r1, i) = Comp(r2, i)
    \/ \E i \in 1..n : /\ Comp(r1, i) > Comp(r2, i)
                       /\ \A j \in 1..(i - 1) : Comp(r1, j) = Comp(r2, j)

\* line is name==release, an exact pin.
IsExactPin(line) ==
    /\ Len(Split(line, EqEq)) = 2
    /\ Split(line, EqEq)[1] # <<>>
    /\ AllIn(Split(line, EqEq)[1], NameChars)
    /\ IsRelease(Split(line, EqEq)[2])

\* line is name>=release, a minimum-version constraint.
IsFloor(line) ==
    /\ Len(Split(line, GtEq)) = 2
    /\ IsRelease(Split(line, GtEq)[2])

\* The text of a line before its first '=' or '>'.
RECURSIVE LinePrefix(_)
LinePrefix(line) ==
    IF line = <<>> \/ Head(line) \in {"=", ">"} THEN <<>>
    ELSE <<Head(line)>> \o LinePrefix(Tail(line))

-----------------------------------------------------------------------------
(* Properties of the conflict-fix run *)

\* C1: the ladder submits its candidates to the oracle in the order Original,
\* Fixed conflicts, Flexible versions, Flexible + Fixed; only the last call
\* made can have succeeded (nothing is submitted after a success), and a
\* success is returned at once with that candidate's text and label.
C1_FirstSuccessInOrder ==
    LET calls == LadderCalls
        n == Len(calls)
    IN  /\ n <= 4
        /\ \A k \in 1..n : /\ calls[k].label = Rung(k)[1]
                           /\ calls[k].content = Rung(k)[2]
        /\ \A k \in 1..(n - 1) : ~calls[k].success
        /\ (n > 0 /\ calls[n].success) =>
               /\ LadderHasReturned
               /\ fixed_content = calls[n].content
               /\ strategy = calls[n].label
        /\ (LadderHasReturned /\ fixed_content # None) =>
               (n > 0 /\ calls[n].success)

C1_Witness ==
    /\ pc = "ladder_returned"
    /\ strategy = "Flexible versions"
    /\ Len(LadderCalls) = 3
    /\ fixed_content # strategies[2][2]

\* C2 as stated: when the oracle accepts Original, the ladder returns the
\* original text with the Original label after one oracle call and without
\* any rewriter having run.
C2_NoRewriterBeforeReturn ==
    (LadderHasReturned /\ strategy = "Original") =>
        /\ fixed_content = original_content
        /\ Len(LadderCalls) = 1
        /\ rewriterLog = <<>>

\* C2 amended: when the oracle accepts Original, the ladder returns the
\* original text unchanged with the Original label after exactly one oracle
\* call of its own; the rewriters have run by then (twice each, while the
\* list of candidates was built), but no rewritten candidate was submitted.
C2_ShortCircuit ==
    (LadderCalls # <<>> /\ LadderCalls[1].success) =>
        /\ LadderHasReturned
        /\ fixed_content = original_content
        /\ strategy = "Original"
        /\ Len(LadderCalls) = 1
        /\ LadderCalls[1].content = original_content
        /\ rewriterLog = <<"fix_dependency_conflicts", "make_requirements_flexible",
                           "fix_dependency_conflicts", "make_requirements_flexible">>

C2_Witness ==
    /\ pc = "ladder_returned"
    /\ strategy = "Original"
    /\ Strip(original_content) # original_content
    /\ Len(rewriterLog) = 4

\* C3 as stated: a run in which every oracle call fails reports total failure
\* after exactly 4 oracle calls, one per strategy in ladder order, none twice.
C3_FourInvocations ==
    (pc = "done_failed" /\ \A k \in 1..Len(oracleLog) : ~oracleLog[k].success) =>
        /\ Len(oracleLog) = 4
        /\ \A k \in 1..Len(oracleLog) : oracleLog[k].label = Rung(k)[1]
        /\ \A j, k \in 1..Len(oracleLog) :
               oracleLog[j].label = oracleLog[k].label => j = k

\* C4 as stated: the run writes the output file exactly when the oracle
\* accepted one of the ladder's candidates, the accepted one is what is
\* written, and with no accepted candidate the run fails and writes nothing.
C4_OutputIffAccepted ==
    (pc \in {"done_saved", "done_failed"}) =>
        LET accepted == {k \in 1..Len(LadderCalls) : LadderCalls[k].success} IN
        /\ (outputFile # None) <=> (accepted # {})
        /\ accepted # {} => /\ pc = "done_saved"
                            /\ outputFile = LadderCalls[Min(accepted)].content
        /\ accepted = {} => pc = "done_failed"

\* C5 as stated: whenever an oracle call has ended, on any exit path, its
\* transient file is gone, so no transient file is left between steps.
C5_NoTransientFileLeft == tempFiles = {}

\* C6 as stated: no failure of an oracle call leaves the adapter as an
\* exception; the ladder goes on and ends with a winner or total failure.
C6_NoFailureEscapes ==
    /\ pc # "crashed"
    /\ \A k \in 1..Len(oracleLog) : ~oracleLog[k].raised

\* C7: applying fix_dependency_conflicts to its own output changes nothing,
\* and no replacement text of the rule table is rewritten to something else.
C7_FixIdempotent ==
    /\ strategies # <<>> =>
           fix_dependency_conflicts(strategies[2][2]) = strategies[2][2]
    /\ \A k \in 1..Len(conflict_fixes) :
           FixLine(conflict_fixes[k][2]) = conflict_fixes[k][2]

C7_Witness ==
    /\ strategies # <<>>
    /\ Contains(strategies[2][2], numpyRange)
    /\ ~Contains(original_content, numpyRange)

\* C8: make_requirements_flexible turns an exact pin name==X.Y[.Z...] into the
\* floor name>=X.Y.0, which the pinned release satisfies; a pin with a single
\* component into name>=<version>; a line without '==' is emitted as it was.
C8_FlexNeverTightens ==
    strategies # <<>> =>
        LET out == Split(strategies[3][2], NL) IN
        /\ Len(out) = Len(InputLines)
        /\ \A j \in 1..Len(InputLines) :
            LET line == InputLines[j] IN
            /\ IsExactPin(line) =>
                 LET name == Split(line, EqEq)[1]
                     pinned == Release(Split(line, EqEq)[2])
                 IN  /\ IsFloor(out[j])
                     /\ Split(out[j], GtEq)[1] = name
                     /\ ReleaseGE(pinned, Release(Split(out[j], GtEq)[2]))
                     /\ IF Len(pinned) >= 2
                        THEN Release(Split(out[j], GtEq)[2]) = <<pinned[1], pinned[2], 0>>
                        ELSE Split(out[j], GtEq)[2] = Split(line, EqEq)[2]
            /\ ~Contains(line, EqEq) => out[j] = line

C8_Witness ==
    /\ strategies # <<>>
    /\ Contains(original_content, numpy \o EqEq \o <<"1", ".", "2", "6", ".", "4">>)
    /\ Contains(strategies[3][2], numpy \o GtEq \o <<"1", ".", "2", "6", ".", "0">>)
    /\ Contains(original_content, flask \o EqEq \o <<"3">>)

\* C10 as stated: a line with no exact rule match is rewritten only when its
\* own prefix equals the prefix of a rule key, then by the first such rule;
\* lines of other packages, comments and blank lines pass through unchanged.
C10_PrefixMatchSamePackageOnly ==
    strategies # <<>> =>
        LET out == Split(strategies[2][2], NL) IN
        \A j \in 1..Len(InputLines) :
            LET line == InputLines[j]
                same == {k \in 1..Len(conflict_fixes) :
                            LinePrefix(conflict_fixes[k][1]) = LinePrefix(line)}
            IN  /\ IsCommentOrBlank(line) => out[j] = line
                /\ (~IsCommentOrBlank(line) /\ ExactRules(line) = {}) =>
                       /\ out[j] # line =>
                              /\ same # {}
                              /\ out[j] = conflict_fixes[Min(same)][2]
                       /\ same = {} => out[j] = line

-----------------------------------------------------------------------------
(* auto-up.py: get_latest_version *)

AvailableVersions == <<"A", "v", "a", "i", "l", "a", "b", "l", "e", " ", "v", "e", "r", "s", "i", "o", "n", "s", ":">>
CommaSpace == <<",", " ">>

\* What "pip index versions <package>" can do:
\*   raised  subprocess.run raises (pip cannot be started)
\*   stdout  the captured standard output otherwise
LookupResponses ==
    { [id |-> "error", raised |-> TRUE, stdout |-> <<>>],
      [id |-> "unknown", raised |-> FALSE, stdout |-> <<>>],
      [id |-> "no_list", raised |-> FALSE, stdout |-> <<"E", "R", "R", "O", "R", ":", " ", "N", "o", " ", "m", "a", "t", "c", "h", "i", "n", "g", " ", "d", "i", "s", "t", "r", "i", "b", "u", "t", "i", "o", "n", " ", "f", "o", "u", "n", "d", "\n">>],
      [id |-> "empty_list", raised |-> FALSE, stdout |-> <<"x", " ", "(", ")", "\n">> \o AvailableVersions \o <<" ", "\n">>],
      [id |-> "one", raised |-> FALSE, stdout |-> AvailableVersions \o <<" ", "3", ".", "1", ".", "0", "\n">>],
      [id |-> "two", raised |-> FALSE, stdout |-> <<"r", "e", "q", "u", "e", "s", "t", "s", " ", "(", "2", ".", "3", "1", ".", "0", ")", "\n">> \o AvailableVersions
                 \o <<" ", "2", ".", "3", "1", ".", "0", ",", " ", "2", ".", "3", "0", ".", "0", "\n", " ", " ", "I", "N", "S", "T", "A", "L", "L", "E", "D", ":", " ", "2", ".", "0", ".", "0", "\n">>] }

\* str.splitlines() for text whose line ends are "\n".
SplitLines(text) ==
    LET ps == Split(text, NL) IN
    IF ps[Len(ps)] = <<>> THEN SubSeq(ps, 1, Len(ps) - 1) ELSE ps

\* The lookup that answers with the last listed version.
get_latest_version_last(response) ==
    IF response.raised THEN None
    ELSE LET lines == SplitLines(response.stdout)
             hits == {i \in 1..Len(lines) : Contains(lines[i], AvailableVersions)}
         IN  IF hits = {} THEN None
             ELSE LET line == lines[Min(hits)]
                      tail == Split(line, AvailableVersions)
                      versions == Split(Strip(tail[Len(tail)]), CommaSpace)
                  IN  versions[Len(versions)]

\* The returned value: the first listed version, or None.
get_latest_version(response) ==
    IF response.raised THEN None
    ELSE LET lines == SplitLines(response.stdout)
             hits == {i \in 1..Len(lines) : Contains(lines[i], AvailableVersions)}
         IN  IF hits = {} THEN None
             ELSE LET line == lines[Min(hits)]
                      tail == Split(line, AvailableVersions)
                      versions == Split(Strip(tail[Len(tail)]), CommaSpace)
                  IN  versions[1]

-----------------------------------------------------------------------------
(* auto-up.py: upgrade_requirements_file *)

\* "for line in file": the lines of the file, line ends removed.
FileLines(text) == SplitLines(text)

\* group(1) of re.match(r"([a-zA-Z0-9\-_]+)(==([^\s]+))?", line): the longest
\* leading run of name characters; <<>> stands for "no match".
RECURSIVE MatchPackage(_)
MatchPackage(line) ==
    IF line = <<>> \/ Head(line) \notin NameChars THEN <<>>
    ELSE <<Head(line)>> \o MatchPackage(Tail(line))

requests == <<"r", "e", "q", "u", "e", "s", "t", "s">>

UpLinePool ==
    { requests \o EqEq \o <<"2", ".", "0", ".", "0">>,
      flask,
      <<" ">> \o numpy \o GtEq \o <<"1", ".", "0">> \o <<" ">>,
      <<".", "/", "l", "i", "b">>,
      <<"#", " ", "w", "e", "b">>,
      <<>> }

UpManifests == {Join(ls, NL) : ls \in LineLists(UpLinePool)}
                   \cup {Join(ls, NL) \o NL : ls \in LineLists(UpLinePool)}

InitUpgrade ==
    /\ pc = "idle"
    /\ original_content = <<>>
    /\ strategies = <<>>
    /\ idx = 1
    /\ oracleLog = <<>>
    /\ rewriterLog = <<>>
    /\ tempFiles = {}
    /\ fixed_content = None
    /\ strategy = ""
    /\ outputFile = None
    /\ upPc = "reading"
    /\ upInput \in UpManifests
    /\ upgraded_lines = <<>>
    /\ lookupLog = <<>>
    /\ upOutput = None

\* Lines 27-45: one iteration of the loop over the lines of the file.
UpgradeLine ==
    /\ upPc = "reading"
    /\ Len(upgraded_lines) < Len(FileLines(upInput))
    /\ LET j == Len(upgraded_lines) + 1
           original_line == Strip(FileLines(upInput)[j])
           package == MatchPackage(original_line)
       IN  IF original_line = <<>> \/ StartsWith(original_line, <<"#">>)
           THEN /\ upgraded_lines' = Append(upgraded_lines, original_line)
                /\ UNCHANGED lookupLog
           ELSE IF package # <<>>
           THEN \E response \in LookupResponses :
                    LET latest_version == get_latest_version(response) IN
                    /\ lookupLog' = Append(lookupLog,
                           [line |-> j, package |-> package, response |-> response.id])
                    /\ upgraded_lines' = Append(upgraded_lines,
                           IF Truthy(latest_version)
                           THEN package \o EqEq \o latest_version
                           ELSE original_line)
           ELSE /\ upgraded_lines' = Append(upgraded_lines, original_line)
                /\ UNCHANGED lookupLog
    /\ UNCHANGED <<upPc, upInput, upOutput>>
    /\ UNCHANGED runVars

\* Lines 47-48: the output file is written once the loop has ended.
WriteUpgraded ==
    /\ upPc = "reading"
    /\ Len(upgraded_lines) = Len(FileLines(upInput))
    /\ upOutput' = Join(upgraded_lines, NL)
    /\ upPc' = "done"
    /\ UNCHANGED <<upInput, upgraded_lines, lookupLog>>
    /\ UNCHANGED runVars

NextUpgrade ==
    \/ UpgradeLine
    \/ WriteUpgraded

SpecUpgrade == InitUpgrade /\ [][NextUpgrade]_vars

-----------------------------------------------------------------------------
(* Properties of the version upgrade pass *)

\* The first version a response lists; <<>> when the lookup fails.
FirstListed(id) ==
    CASE id = "one" -> <<"3", ".", "1", ".", "0">>
      [] id = "two" -> <<"2", ".", "3", "1", ".", "0">>
      [] OTHER -> <<>>

\* The package a requirement line names.
NamedPackage(line) ==
    IF Contains(line, EqEq) THEN Split(line, EqEq)[1]
    ELSE IF Contains(line, GtEq) THEN Split(line, GtEq)[1]
    ELSE line

LookupsOf(j) == {k \in 1..Len(lookupLog) : lookupLog[k].line = j}

\* C9: a failed lookup leaves exactly its line unchanged, a successful one
\* turns its line into <package>==<first listed version>, comment and blank
\* lines trigger no lookup, and the output has the input's lines in order.
C9_PerLineUpgrade ==
    LET lines == FileLines(upInput) IN
    /\ Len(upgraded_lines) <= Len(lines)
    /\ \A j \in 1..Len(upgraded_lines) :
         LET line == Strip(lines[j]) IN
         /\ Cardinality(LookupsOf(j)) <= 1
         /\ IsCommentOrBlank(line) => (LookupsOf(j) = {} /\ upgraded_lines[j] = line)
         /\ LookupsOf(j) = {} => upgraded_lines[j] = line
         /\ \A k \in LookupsOf(j) :
              /\ lookupLog[k].package = NamedPackage(line)
              /\ IF FirstListed(lookupLog[k].response) # <<>>
                 THEN upgraded_lines[j] =
                          NamedPackage(line) \o EqEq \o FirstListed(lookupLog[k].response)
                 ELSE upgraded_lines[j] = line
    /\ \A k \in 1..Len(lookupLog) : lookupLog[k].line <= Len(upgraded_lines)
    /\ upPc = "done" =>
         /\ Len(upgraded_lines) = Len(lines)
         /\ upOutput = Join(upgraded_lines, NL)
         /\ lines # <<>> => Len(Split(upOutput, NL)) = Len(lines)

C9_Witness ==
    /\ upPc = "done"
    /\ \E j, k \in 1..Len(lookupLog) :
         /\ lookupLog[j].response = "two"
         /\ lookupLog[k].response \in {"error", "unknown", "no_list", "empty_list"}
         /\ upgraded_lines[lookupLog[j].line] # Strip(FileLines(upInput)[lookupLog[j].line])
         /\ upgraded_lines[lookupLog[k].line] = Strip(FileLines(upInput)[lookupLog[k].line])

====
